---- MODULE Spec2Model ----
(***************************************************************************)
(* Model of the hackernews-mcp core: the recursive comment-tree builder    *)
(* (src/src/utils.ts, fetchComments / fetchItem), its caller               *)
(* get_story_comments (src/unnamed/part_001) and the content retriever     *)
(* (src/src/fetcher.ts, Fetcher).                                          *)
(*                                                                         *)
(* Optional values (a field that may be undefined in the TypeScript) are   *)
(* sequences of length at most one: <<>> is "undefined", <<v>> is v.       *)
(***************************************************************************)
EXTENDS Integers, Sequences, FiniteSets, TLC

VARIABLES
    store,      \* ItemStore: id -> response of GET /item/<id>.json
    ids,        \* fetchComments argument commentIds of the root call
    maxDepth,   \* fetchComments argument maxDepth
    minScore,   \* fetchComments argument minScore
    pc,         \* position of the root fetchComments call
    tasks,      \* path -> state of the async callback of commentIds.map
    result,     \* value the root call resolved with (when pc = "returned")
    req,        \* RequestPayload and mode of the Fetcher call
    fpc,        \* position of the Fetcher call
    requests,   \* outbound requests issued by fetch(url) so far
    resp,       \* the Response fetch resolved with
    fres,       \* what the Fetcher call returned or raised
    topstories, \* response of GET /topstories.json
    tool        \* the tools/call request being served and its outcome

treeVars == <<store, ids, maxDepth, minScore, pc, tasks, result>>
fetchVars == <<req, fpc, requests, resp, fres>>
toolVars == <<topstories, tool>>
vars == <<store, ids, maxDepth, minScore, pc, tasks, result,
          req, fpc, requests, resp, fres, topstories, tool>>

(***************************************************************************)
(* Bounds of the model.                                                    *)
(***************************************************************************)
MaxKids == 11        \* longest id list (one more than the fan-out cap)
MaxScore == 2        \* scores range over 0..MaxScore or are missing
MaxDepthArg == 3     \* maxDepth ranges over 0..MaxDepthArg
MaxLenArg == 2       \* max_length ranges over -MaxLenArg..MaxLenArg or is missing
MaxTop == 103        \* longest list GET /topstories.json answers with

(***************************************************************************)
(* Program constants.                                                      *)
(***************************************************************************)
FanOutCap == 10      \* comment.kids.slice(0, 10)
DefaultMaxLength == 5000      \* requestPayload.max_length ?? 5000
DefaultStartIndex == 0        \* requestPayload.start_index ?? 0
DefaultCount == 30            \* args?.count || 30
MaxCount == 100               \* Math.min(..., 100) of get_top_stories
DefaultMinScore == 1          \* min_score || 1
DefaultMaxDepth == 3          \* max_depth || 3
MaxDepthCap == 10             \* Math.min(..., 10)
DefaultLimit == 20            \* limit || 20
MaxLimit == 100               \* Math.min(..., 100) of get_story_comments
DetailsKidsCap == 10          \* story.kids.slice(0, 10)
DetailsMaxDepth == 2          \* fetchComments(..., 2) of get_story_details

Null == [null |-> TRUE]

\* Ids known to the model; id MaxKids + 1 is the parent of a widest kids list.
ItemIds == 1..(MaxKids + 1)

(***************************************************************************)
(* Items as the API returns them.  time is <<"num", seconds>>, <<"str",    *)
(* ms>> for a string Date.parse understands, <<"bad">> for a string it     *)
(* does not (Date.parse gives NaN), <<>> when the field is missing.        *)
(***************************************************************************)
\* by and text of the item with a given id: item 3 has no author and no
\* text; the text of the others holds an entity and a tag
ByOf(id) ==
    CASE id % 3 = 1 -> <<"alice">>
      [] id % 3 = 2 -> <<"bob">>
      [] OTHER      -> <<>>

TextOf(id) ==
    CASE id % 3 = 1 -> <<<<"it", "&#x27;", "s", "<p>", "fine">>>>
      [] id % 3 = 2 -> <<<<"ok">>>>
      [] OTHER      -> <<>>

MkItem(id, type, deleted, dead, score, time, kids) ==
    [id |-> id, type |-> type, deleted |-> deleted, dead |-> dead,
     by |-> ByOf(id), text |-> TextOf(id),
     score |-> score, time |-> time, kids |-> kids]

Ok(item) == [status |-> "ok", data |-> item]
Err == [status |-> "error", data |-> Null]

(***************************************************************************)
(* The item stores the model ranges over.                                  *)
(*                                                                         *)
(* Small stores: items 1..3 are comments whose scores range over every     *)
(* assignment of ScoreOpts; item 2 may instead be one of the OddKinds;     *)
(* a shape fixes the root id list and the kids of items 1..3.              *)
(* Wide stores: items 1..MaxKids are leaf comments, item MaxKids + 1 is a  *)
(* comment whose kids are 1..MaxKids.                                      *)
(***************************************************************************)
ScoreOpts == {<<>>} \cup {<<s>> : s \in 1..MaxScore}

OddKinds == {"plain", "absent", "error", "story", "deleted", "dead", "badtime"}

TimeOf(id) ==
    CASE id % 3 = 1 -> <<"num", id>>
      [] id % 3 = 2 -> <<"str", id * 1000>>
      [] OTHER      -> <<>>

Range(n) == [i \in 1..n |-> i]

Shapes ==
    { [roots |-> <<1, 2, 3>>, kids |-> <<<<>>, <<>>, <<>>>>],
      [roots |-> <<1>>,       kids |-> <<<<2>>, <<3>>, <<1>>>>],
      [roots |-> <<1, 2>>,    kids |-> <<<<3, 2>>, <<3>>, <<>>>>],
      [roots |-> <<2, 1, 2>>, kids |-> <<<<>>, <<>>, <<>>>>],
      [roots |-> <<>>,        kids |-> <<<<>>, <<>>, <<>>>>] }

Response(id, kind, score, kids) ==
    CASE kind = "absent"  -> Ok(Null)
      [] kind = "error"   -> Err
      [] kind = "story"   -> Ok(MkItem(id, "story", FALSE, FALSE, score, TimeOf(id), kids))
      [] kind = "deleted" -> Ok(MkItem(id, "comment", TRUE, FALSE, score, TimeOf(id), kids))
      [] kind = "dead"    -> Ok(MkItem(id, "comment", FALSE, TRUE, score, TimeOf(id), kids))
      [] kind = "badtime" -> Ok(MkItem(id, "comment", FALSE, FALSE, score, <<"bad">>, kids))
      [] OTHER            -> Ok(MkItem(id, "comment", FALSE, FALSE, score, TimeOf(id), kids))

SmallStore(shape, odd, scores) ==
    [id \in ItemIds |->
        IF id > 3 THEN Ok(Null)
        ELSE Response(id, IF id = 2 THEN odd ELSE "plain", scores[id], shape.kids[id])]

WideScore(id) == IF id % 3 = 0 THEN <<>> ELSE <<((id % 3) * MaxScore) \div 2>>

WideStore ==
    [id \in ItemIds |->
        IF id <= MaxKids
        THEN Response(id, "plain", WideScore(id), <<>>)
        ELSE Response(id, "plain", <<1>>, Range(MaxKids))]

DepthArgs == 0..MaxDepthArg
ScoreArgs == 0..MaxScore

SmallConfigs ==
    { [store |-> SmallStore(sh, odd, sc), ids |-> sh.roots, maxDepth |-> d, minScore |-> m] :
        sh \in Shapes, odd \in OddKinds, sc \in [1..3 -> ScoreOpts],
        d \in DepthArgs, m \in ScoreArgs }

WideConfigs ==
    { [store |-> WideStore, ids |-> r, maxDepth |-> d, minScore |-> 0] :
        r \in {Range(MaxKids), <<MaxKids + 1>>}, d \in DepthArgs }

Configs == SmallConfigs \cup WideConfigs

(***************************************************************************)
(* fetchItem: a failed request is logged and collapses to null.            *)
(***************************************************************************)
fetchItem(id) ==
    IF store[id].status = "ok" THEN store[id].data ELSE Null

(***************************************************************************)
(* Pure pieces of fetchComments.                                           *)
(***************************************************************************)
\* Keep without the !comment.dead test
KeepDead(c) == c # Null /\ c.type = "comment" /\ ~c.deleted

\* comment && comment.type === 'comment' && !comment.deleted && !comment.dead
Keep(c) == c # Null /\ c.type = "comment" /\ ~c.deleted /\ ~c.dead

\* new Date(NaN).toISOString() raises RangeError
TimeThrows(t) == t = <<"bad">>

\* seconds * 1000 for a number, Date.parse for a string, undefined otherwise
NormalizeTime(t) ==
    IF t = <<>> THEN <<>>
    ELSE IF t[1] = "num" THEN <<"iso", t[2] * 1000>>
    ELSE <<"iso", t[2]>>

\* MkNode stamping a one-based depth
MkNodeOneBased(c, currentDepth) ==
    [id |-> c.id, type |-> c.type, deleted |-> c.deleted, dead |-> c.dead,
     by |-> c.by, text |-> c.text,
     score |-> c.score, kids |-> c.kids, time |-> NormalizeTime(c.time),
     depth |-> currentDepth + 1, replies |-> <<>>]

\* { ...comment, depth: currentDepth, time: ... }
MkNode(c, currentDepth) ==
    [id |-> c.id, type |-> c.type, deleted |-> c.deleted, dead |-> c.dead,
     by |-> c.by, text |-> c.text,
     score |-> c.score, kids |-> c.kids, time |-> NormalizeTime(c.time),
     depth |-> currentDepth, replies |-> <<>>]

\* comment.kids && comment.kids.length > 0 && currentDepth < maxDepth - 1
Recurses(c, currentDepth) == Len(c.kids) > 0 /\ currentDepth < maxDepth - 1

Min(a, b) == IF a <= b THEN a ELSE b

\* if (currentDepth >= maxDepth || commentIds.length === 0) return []
EarlyReturn(commentIds, currentDepth) ==
    currentDepth >= maxDepth \/ Len(commentIds) = 0

\* ChildIds without the slice
ChildIdsAll(kids) == kids

\* comment.kids.slice(0, 10)
ChildIds(kids) == SubSeq(kids, 1, Min(Len(kids), FanOutCap))

\* RootIds with the slice of the recursive call
RootIdsCapped(commentIds) == ChildIds(commentIds)

\* the root call maps over commentIds as given
RootIds(commentIds) == commentIds

\* currentDepth + 1
ChildDepth(currentDepth) == currentDepth + 1

\* (b.score || 0) - (a.score || 0)
ScoreOr0(c) == IF c.score = <<>> THEN 0 ELSE c.score[1]

\* Array.prototype.sort is stable: x goes after every element that does not
\* compare after it
InsertByScore(sorted, x) ==
    LET keep == {i \in 1..Len(sorted) : ScoreOr0(sorted[i]) >= ScoreOr0(x)}
        k == IF keep = {} THEN 0 ELSE CHOOSE i \in keep : \A j \in keep : j <= i
    IN  SubSeq(sorted, 1, k) \o <<x>> \o SubSeq(sorted, k + 1, Len(sorted))

\* SortByScore without the sort
SortByScoreSkipped(s) == s

RECURSIVE SortByScore(_)
SortByScore(s) ==
    IF s = <<>> THEN <<>>
    ELSE InsertByScore(SortByScore(SubSeq(s, 1, Len(s) - 1)), s[Len(s)])

\* comments.filter(Boolean)
RECURSIVE ValidComments(_)
ValidComments(s) ==
    IF s = <<>> THEN <<>>
    ELSE (IF s[1] = Null THEN <<>> ELSE <<s[1]>>) \o ValidComments(Tail(s))

(***************************************************************************)
(* The callbacks of commentIds.map, one per id occurrence, named by the    *)
(* path of list positions from the root call.                              *)
(***************************************************************************)
Children(p) ==
    {q \in DOMAIN tasks : Len(q) = Len(p) + 1 /\ SubSeq(q, 1, Len(p)) = p}

\* Spawn looking every id up a second time
SpawnRetry(p, commentIds, currentDepth) ==
    [q \in {Append(p, i) : i \in 1..(2 * Len(commentIds))} |->
        [id |-> commentIds[((q[Len(q)] - 1) % Len(commentIds)) + 1], depth |-> currentDepth,
         st |-> "fetching", node |-> Null]]

\* commentIds.map(async (id) => { const comment = await fetchItem(...) ... })
Spawn(p, commentIds, currentDepth) ==
    [q \in {Append(p, i) : i \in 1..Len(commentIds)} |->
        [id |-> commentIds[q[Len(q)]], depth |-> currentDepth,
         st |-> "fetching", node |-> Null]]

\* AllResolved that does not wait for every callback
SomeResolved(p) == \E q \in Children(p) : tasks[q].st = "done"

\* Promise.all resolves when every callback has resolved
AllResolved(p) == \A q \in Children(p) : tasks[q].st = "done"

\* Promise.all rejects as soon as one callback rejects
SomeRejected(p) == \E q \in Children(p) : tasks[q].st = "rejected"

\* Promise.all keeps the order of its input
Gathered(p) ==
    [i \in 1..Cardinality(Children(p)) |-> tasks[Append(p, i)].node]

\* validComments.sort(...) of the call whose callbacks are Children(p)
Returned(p) == SortByScore(ValidComments(Gathered(p)))

\* fetchComments run one id after the other over the lookup function look:
\* the tree of the sequential schedule
RECURSIVE RefTree(_, _, _)
RefOne(look, id, d) ==
    LET c == look[id] IN
    IF ~Keep(c) THEN Null
    ELSE IF Recurses(c, d)
         THEN [MkNode(c, d) EXCEPT
                 !.replies = <<SortByScore(RefTree(look, ChildIds(c.kids), ChildDepth(d)))>>]
         ELSE MkNode(c, d)
RefTree(look, commentIds, d) ==
    IF EarlyReturn(commentIds, d) THEN <<>>
    ELSE SortByScore(ValidComments([i \in 1..Len(commentIds) |-> RefOne(look, commentIds[i], d)]))

(***************************************************************************)
(* Fetcher (src/src/fetcher.ts).                                           *)
(*                                                                         *)
(* A url is the string the caller passes: form "url" is                    *)
(* "http://<host>/admin", form "bare" is "<host>" alone.  Text is a        *)
(* sequence of tokens.  A response body is given by the tree new           *)
(* JSDOM(text) parses it to (the body element and what is below it); the   *)
(* text itself is the serialisation of that tree, where the token of an    *)
(* element's name stands for its start tag and "/" for its end tag.        *)
(***************************************************************************)
Hosts == {"127.0.0.1", "10.0.0.5", "169.254.169.254", "8.8.8.8", "example.com"}
IpLiterals == {"127.0.0.1", "10.0.0.5", "169.254.169.254", "8.8.8.8"}
PrivateRanges == {"127.0.0.1", "10.0.0.5", "169.254.169.254"}

Urls == {[form |-> f, host |-> h] : f \in {"url", "bare"}, h \in Hosts}
Modes == {"html", "json", "txt", "markdown"}

\* DOM nodes: a text node carries tokens, an element its name, class list,
\* id, role attribute and child nodes
Text(t) == [tag |-> "#text", text |-> t, class |-> {}, id |-> "", role |-> "", kids |-> <<>>]
El(tag, class, id, role, kids) ==
    [tag |-> tag, text |-> <<>>, class |-> class, id |-> id, role |-> role, kids |-> kids]
Plain(tag, kids) == El(tag, {}, "", "", kids)

\* the body elements of the documents served
Documents ==
    { \* a page with navigation beside its main region
      Plain("body", << Plain("nav", <<Text(<<"menu">>)>>),
                       Plain("main", <<Text(<<"story">>)>>) >>),
      \* the main region nested in the navigation
      Plain("body", << Plain("nav", << Text(<<"menu">>),
                                       Plain("main", <<Text(<<"links">>)>>) >>) >>),
      \* the region marked role="main" is itself a header
      Plain("body", << El("header", {}, "", "main", <<Text(<<"banner">>)>>),
                       Plain("p", <<Text(<<"story">>)>>) >>),
      \* chrome inside the selected region
      Plain("body", << Plain("article", << Plain("aside", <<Text(<<"ad">>)>>),
                                           Text(<<"story">>),
                                           El("div", {"sidebar"}, "", "", <<Text(<<"links">>)>>),
                                           Plain("noscript", <<Text(<<"noscript">>)>>) >>) >>),
      \* no region matches: the body is converted
      Plain("body", << Text(<<"story">>), Plain("footer", <<Text(<<"legal">>)>>) >>),
      \* selectors in conflict: .post precedes article in the document,
      \* #content precedes .content
      Plain("body", << El("div", {"post"}, "", "", <<Text(<<"post">>)>>),
                       Plain("article", <<Text(<<"story">>)>>) >>),
      Plain("body", << El("div", {}, "content", "", <<Text(<<"byid">>)>>),
                       El("div", {"content", "entry"}, "", "", <<Text(<<"byclass">>)>>) >>),
      \* markup with a script between texts
      Plain("body", << Text(<<" ", "a">>), Plain("script", <<Text(<<"code">>)>>),
                       Text(<<" ", " ", "b">>) >>) }

\* response.text(): the text the tree was parsed from
RECURSIVE Serialize(_)
Serialize(nodes) ==
    IF nodes = <<>> THEN <<>>
    ELSE LET n == Head(nodes) IN
         (IF n.tag = "#text" THEN n.text
          ELSE <<n.tag>> \o Serialize(n.kids) \o <<"/">>) \o Serialize(Tail(nodes))

Doc(kind, dom) == [kind |-> kind, chars |-> Serialize(dom.kids), dom |-> dom]

Bodies ==
    { Doc("json", Plain("body", <<Text(<<"{", " ", "}">>)>>)),
      Doc("text", Plain("body", <<Text(<<"a", "b", "c", "d">>)>>)) }
    \cup {Doc("html", d) : d \in Documents}

Statuses == {200, 404, 500}

Requests ==
    { [url |-> u, mode |-> m, max_length |-> ml, start_index |-> si] :
        u \in Urls, m \in Modes,
        ml \in {<<>>} \cup {<<n>> : n \in (-MaxLenArg)..MaxLenArg},
        si \in {<<>>} \cup {<<n>> : n \in {-1, 1, 9}} }

NoRequest == [url |-> [form |-> "bare", host |-> "example.com"], mode |-> "html",
              max_length |-> <<>>, start_index |-> <<>>]
NoResponse == [status |-> 0, body |-> Doc("text", Plain("body", <<>>))]
NoResult == [outcome |-> "none", isError |-> FALSE, text |-> <<>>]

\* private-ip classifies an IP address string; any other string (a URL
\* included) is no address and gives undefined
is_ip_private(url) ==
    url.form = "bare" /\ url.host \in IpLiterals /\ url.host \in PrivateRanges

\* fetch(url) raises TypeError on a string that is no absolute URL
UrlParses(url) == url.form = "url"

\* response.ok
StatusOk(status) == status >= 200 /\ status <= 299

\* String.prototype.substring: arguments clamped to [0, length], swapped
\* when start > end
Clamp(x, n) == IF x < 0 THEN 0 ELSE IF x > n THEN n ELSE x
Substring(text, a, b) ==
    LET a1 == Clamp(a, Len(text))
        b1 == Clamp(b, Len(text))
    IN  SubSeq(text, Min(a1, b1) + 1, IF a1 <= b1 THEN b1 ELSE a1)

applyLengthLimits(text, maxLength, startIndex) ==
    IF startIndex >= Len(text) THEN <<>>
    ELSE Substring(text, startIndex, Min(startIndex + maxLength, Len(text)))

\* requestPayload.max_length ?? 5000, requestPayload.start_index ?? 0
MaxLengthOf(r) == IF r.max_length = <<>> THEN DefaultMaxLength ELSE r.max_length[1]
StartIndexOf(r) == IF r.start_index = <<>> THEN DefaultStartIndex ELSE r.start_index[1]

Windowed(r, text) == applyLengthLimits(text, MaxLengthOf(r), StartIndexOf(r))

RECURSIVE Without(_, _)
Without(text, drop) ==
    IF text = <<>> THEN <<>>
    ELSE (IF text[1] \in drop THEN <<>> ELSE <<text[1]>>) \o Without(Tail(text), drop)

\* text.replace(/\s+/g, ' ').trim()
RECURSIVE CollapseSpaces(_)
CollapseSpaces(text) ==
    IF Len(text) < 2 THEN text
    ELSE IF text[1] = " " /\ text[2] = " " THEN CollapseSpaces(Tail(text))
    ELSE <<text[1]>> \o CollapseSpaces(Tail(text))

RECURSIVE TrimLeft(_)
TrimLeft(text) ==
    IF text # <<>> /\ text[1] = " " THEN TrimLeft(Tail(text)) ELSE text

RECURSIVE TrimRight(_)
TrimRight(text) ==
    IF text # <<>> /\ text[Len(text)] = " "
    THEN TrimRight(SubSeq(text, 1, Len(text) - 1)) ELSE text

Trim(text) == TrimRight(TrimLeft(text))

\* the catch of _fetch: throw new Error(`Failed to fetch ${url}: ${e.message}`)
FetchCatch(url, message) == <<"Failed to fetch", url, message>>

\* the handlers' rethrow in place of their catch
HandlerRethrow(message) ==
    [outcome |-> "raised", isError |-> FALSE, text |-> message]

\* the catch of html, json, txt and markdown
HandlerCatch(message) ==
    [outcome |-> "returned", isError |-> TRUE, text |-> message]

\* return { content: [{ type: 'text', text }], isError: false }
HandlerOk(text) ==
    [outcome |-> "returned", isError |-> FALSE, text |-> text]

\* document.body of new JSDOM(html): the HTML parser supplies a body element
\* for every input text
HasBody(body) == TRUE

\* getElementsByTagName(tag) ... forEach(el => el.remove())
RECURSIVE RemoveTags(_, _)
RemoveTags(nodes, tags) ==
    IF nodes = <<>> THEN <<>>
    ELSE LET n == Head(nodes) IN
         (IF n.tag \in tags THEN <<>>
          ELSE <<[n EXCEPT !.kids = RemoveTags(n.kids, tags)]>>) \o RemoveTags(Tail(nodes), tags)

\* document.body.textContent
RECURSIVE TextContent(_)
TextContent(nodes) ==
    IF nodes = <<>> THEN <<>>
    ELSE Head(nodes).text \o TextContent(Head(nodes).kids) \o TextContent(Tail(nodes))

\* the nodes of a subtree in document order
RECURSIVE Descendants(_)
Descendants(nodes) ==
    IF nodes = <<>> THEN <<>>
    ELSE <<Head(nodes)>> \o Descendants(Head(nodes).kids) \o Descendants(Tail(nodes))

\* the selectors tried for the main content area, in this order
Selectors ==
    << [by |-> "tag", v |-> "main"], [by |-> "tag", v |-> "article"],
       [by |-> "role", v |-> "main"], [by |-> "class", v |-> "content"],
       [by |-> "id", v |-> "content"], [by |-> "class", v |-> "post"],
       [by |-> "class", v |-> "entry"] >>

Matches(n, sel) ==
    /\ n.tag # "#text"
    /\ CASE sel.by = "tag" -> n.tag = sel.v
         [] sel.by = "role" -> n.role = sel.v
         [] sel.by = "class" -> sel.v \in n.class
         [] OTHER -> n.id = sel.v

\* document.querySelector(selector): the first match in document order
querySelector(doc, sel) ==
    LET Hit(n) == Matches(n, sel)
        hits == SelectSeq(Descendants(<<doc>>), Hit)
    IN  IF hits = <<>> THEN <<>> ELSE <<hits[1]>>

\* FirstMatch taking the first element of the document that any selector
\* matches
FirstMatchAnySelector(doc, sels) ==
    LET Hit(n) == \E k \in DOMAIN sels : Matches(n, sels[k])
        hits == SelectSeq(Descendants(<<doc>>), Hit)
    IN  IF hits = <<>> THEN <<>> ELSE <<hits[1]>>

\* for (const selector of selectors) { ...; break; }
RECURSIVE FirstMatch(_, _)
FirstMatch(doc, sels) ==
    IF sels = <<>> THEN <<>>
    ELSE LET el == querySelector(doc, Head(sels)) IN
         IF el # <<>> THEN el ELSE FirstMatch(doc, Tail(sels))

\* ... if (!contentElement && isHTMLElement(document.body)) contentElement = document.body
ContentElement(doc) ==
    LET el == FirstMatch(doc, Selectors) IN
    IF el # <<>> THEN el ELSE <<doc>>

\* the filter of the rule 'ignoreNavigation'
ignoreNavigation(n) ==
    \/ n.tag \in {"nav", "header", "footer", "aside"}
    \/ n.tag # "#text" /\ n.class \cap {"navigation", "sidebar", "widget"} # {}

\* turndownService.turndown(contentElement): the child nodes of the element
\* are converted in order; an element a rule matches is replaced by the
\* rule's replacement.  Rules are looked up for the nodes below the element
\* given, never for that element itself.
RECURSIVE process(_)
process(nodes) ==
    IF nodes = <<>> THEN <<>>
    ELSE LET n == Head(nodes) IN
         (IF n.tag = "#text" THEN n.text
          ELSE IF ignoreNavigation(n) THEN <<>>
          ELSE process(n.kids)) \o process(Tail(nodes))

turndown(el) == process(el.kids)

\* what each mode makes of the body of a successful response
Converted(r, body) ==
    CASE r.mode = "html" -> HandlerOk(Windowed(r, body.chars))
      [] r.mode = "json" ->
            IF body.kind = "json"
            THEN HandlerOk(Windowed(r, Without(body.chars, {" "})))
            ELSE HandlerCatch(<<"Unexpected token">>)
      [] r.mode = "txt" ->
            IF HasBody(body)
            THEN HandlerOk(Windowed(r, Trim(CollapseSpaces(
                    TextContent(RemoveTags(body.dom.kids, {"script", "style"}))))))
            ELSE HandlerCatch(<<"Cannot read properties of null">>)
      [] OTHER ->
            IF HasBody(body)
            THEN LET doc == [body.dom EXCEPT
                                !.kids = RemoveTags(@, {"script", "style", "noscript"})]
                 IN  HandlerOk(Windowed(r, Trim(turndown(ContentElement(doc)[1]))))
            ELSE HandlerCatch(<<"No content element found in HTML document">>)

(***************************************************************************)
(* The server's tools (src/unnamed/part_001) and formatCommentsAsText      *)
(* (src/src/utils.ts).  Rendered text is a sequence of line records.       *)
(***************************************************************************)
\* x || d on numbers: d when x is undefined or 0
OrDefault(x, d) == IF x = <<>> \/ x[1] = 0 THEN d ELSE x[1]

Max(a, b) == IF a >= b THEN a ELSE b

\* Array.prototype.slice(0, end): a negative end counts from the end
SliceTo(s, end) ==
    SubSeq(s, 1, IF end < 0 THEN Max(Len(s) + end, 0) ELSE Min(end, Len(s)))

\* the replaces of cleanText: entities are decoded, tags are dropped
CleanToken(t) ==
    CASE t = "&#x2F;" -> <<"/">>
      [] t = "&#x27;" -> <<"'">>
      [] t = "&quot;" -> <<"quote">>
      [] t = "&gt;"   -> <<">">>
      [] t = "&lt;"   -> <<"<">>
      [] t \in {"<a href>", "</a>", "<p>", "<i>", "</i>"} -> <<>>
      [] OTHER -> <<t>>

RECURSIVE CleanTokens(_)
CleanTokens(text) ==
    IF text = <<>> THEN <<>> ELSE CleanToken(Head(text)) \o CleanTokens(Tail(text))

\* (comment.text || '').replace(...)
CleanText(text) == IF text = <<>> THEN <<>> ELSE CleanTokens(text[1])

\* comment.score ? ` (${comment.score} points)` : ''
ScoreText(score) == IF score = <<>> \/ score[1] = 0 THEN <<>> ELSE <<score[1], "points">>

\* `**${comment.by}**`: an undefined value is interpolated as "undefined"
Interpolate(x) == IF x = <<>> THEN "undefined" ELSE x[1]

\* depth === 0 ? bubble : arrow.repeat(depth)
DepthIndicator(depth) == IF depth = 0 THEN <<"bubble">> ELSE [i \in 1..depth |-> "arrow"]

\* the two lines formatComment writes for the comment itself; of names the
\* comment the block was written for and is not part of the text
Block(comment, depth) ==
    [kind |-> "block", of |-> comment.id, indent |-> depth,
     marker |-> DepthIndicator(depth), by |-> Interpolate(comment.by),
     score |-> ScoreText(comment.score), text |-> CleanText(comment.text)]

Divider == [kind |-> "divider"]
NoComments == [kind |-> "none", text |-> "No comments found matching the criteria."]

\* formatComment without the replies
formatCommentFlat(comment, depth) == <<Block(comment, depth)>>

RECURSIVE formatComment(_, _)
RECURSIVE formatReplies(_, _)
formatComment(comment, depth) ==
    <<Block(comment, depth)>> \o
    (IF comment.replies # <<>> /\ Len(comment.replies[1]) > 0
     THEN formatReplies(comment.replies[1], depth + 1) ELSE <<>>)

\* for (const reply of comment.replies) result += formatComment(reply, depth + 1)
formatReplies(replies, depth) ==
    IF replies = <<>> THEN <<>>
    ELSE formatComment(Head(replies), depth) \o formatReplies(Tail(replies), depth)

\* for (const comment of comments) { output += formatComment(comment); output += '---' }
RECURSIVE formatThreads(_)
formatThreads(comments) ==
    IF comments = <<>> THEN <<>>
    ELSE formatComment(Head(comments), 0) \o <<Divider>> \o formatThreads(Tail(comments))

formatCommentsAsText(comments, storyTitle, storyId, totalComments) ==
    LET header == << [kind |-> "title", story |-> storyId],
                     [kind |-> "subtitle", title |-> storyTitle],
                     [kind |-> "counts", total |-> totalComments, showing |-> Len(comments)] >>
    IN  IF Len(comments) = 0 THEN header \o <<NoComments>>
        ELSE header \o <<Divider>> \o formatThreads(comments)

\* the story the tools are asked about
StoryId == MaxKids + 2

\* a story item; kids, title, url and descendants may be missing
MkStory(id, kids, title, url, descendants, time) ==
    [id |-> id, type |-> "story", deleted |-> FALSE, dead |-> FALSE,
     by |-> <<"alice">>, text |-> <<>>, score |-> <<1>>, time |-> time,
     kids |-> kids, title |-> title, url |-> url, descendants |-> descendants]

StoryKinds == {"kids", "untitled", "nokids", "badtime", "absent", "error"}

StoryUrls ==
    { <<>>, <<[form |-> "url", host |-> "example.com"]>>,
      <<[form |-> "url", host |-> "10.0.0.5"]>>, <<[form |-> "bare", host |-> "10.0.0.5"]>> }

StoryResponse(kind, kids, url) ==
    CASE kind = "absent"   -> Ok(Null)
      [] kind = "error"    -> Err
      [] kind = "nokids"   -> Ok(MkStory(StoryId, <<>>, <<"Show HN">>, url, <<>>, TimeOf(StoryId)))
      [] kind = "untitled" -> Ok(MkStory(StoryId, <<kids>>, <<>>, url, <<>>, TimeOf(StoryId)))
      [] kind = "badtime"  -> Ok(MkStory(StoryId, <<kids>>, <<"Show HN">>, url, <<Len(kids)>>, <<"bad">>))
      [] OTHER             -> Ok(MkStory(StoryId, <<kids>>, <<"Show HN">>, url, <<Len(kids)>>, TimeOf(StoryId)))

ToolStore(base, story) ==
    [id \in ItemIds \cup {StoryId} |-> IF id = StoryId THEN story ELSE base[id]]

\* the items behind the top stories list: all stories but item 3
TopStore(bad) ==
    [id \in 1..MaxTop |->
        IF id = 3 THEN Response(id, "plain", <<1>>, <<>>)
        ELSE Ok(MkStory(id, <<>>, <<"Show HN">>, <<>>, <<>>,
                        IF bad /\ id = 2 THEN <<"bad">> ELSE TimeOf(id)))]

NoArgs ==
    [story_id |-> 0, min_score |-> <<>>, max_depth |-> <<>>, limit |-> <<>>,
     include_comments |-> FALSE, include_markdown |-> FALSE, count |-> <<>>]
NoOut == [kind |-> "none", isError |-> FALSE, body |-> <<>>]
NoTool ==
    [name |-> "none", args |-> NoArgs, pc |-> "idle", out |-> NoOut,
     comments |-> <<>>, storyIds |-> <<>>, issued |-> 0, resolved |-> 0]

ToolScores == { <<<<10>>, <<5>>, <<20>>>>, <<<<>>, <<1>>, <<1>>>> }
ToolOdd == {"plain", "deleted", "badtime"}
\* the shapes of the tree model and a story whose kids are all item 2
ToolShapes == Shapes \cup {[roots |-> <<2, 2>>, kids |-> <<<<>>, <<>>, <<>>>>]}
ToolDepths == {<<>>, <<-1>>, <<1>>}
ToolLimits == {<<>>, <<-1>>, <<1>>}
ToolCounts == {<<>>, <<-1>>, <<0>>, <<1>>, <<MaxCount>>, <<MaxCount + 1>>}

CommentsConfigs ==
    { [store |-> ToolStore(SmallStore(sh, odd, sc), StoryResponse(k, sh.roots, <<>>)),
       topstories |-> Ok(<<>>), name |-> "get_story_comments",
       args |-> [NoArgs EXCEPT !.story_id = StoryId, !.max_depth = d, !.limit = l]] :
        sh \in ToolShapes, odd \in ToolOdd, sc \in ToolScores, k \in StoryKinds,
        d \in ToolDepths, l \in ToolLimits }

DetailsConfigs ==
    { [store |-> ToolStore(SmallStore(sh, odd, <<<<10>>, <<5>>, <<20>>>>),
                           StoryResponse(k, sh.roots, u)),
       topstories |-> Ok(<<>>), name |-> "get_story_details",
       args |-> [NoArgs EXCEPT !.story_id = StoryId, !.include_comments = ic,
                               !.include_markdown = im]] :
        sh \in Shapes, odd \in {"plain", "badtime", "error"}, k \in {"kids", "badtime", "absent"},
        u \in StoryUrls, ic \in BOOLEAN, im \in BOOLEAN }

TopConfigs ==
    { [store |-> TopStore(bad), topstories |-> t, name |-> "get_top_stories",
       args |-> [NoArgs EXCEPT !.count = c]] :
        bad \in BOOLEAN, t \in {Err} \cup {Ok(Range(n)) : n \in {0, 3, MaxTop}},
        c \in ToolCounts }

ToolConfigs == CommentsConfigs \cup DetailsConfigs \cup TopConfigs

\* throw new McpError(code, message)
McpError(code, message) ==
    [kind |-> "McpError", isError |-> TRUE, body |-> <<code, message>>]

\* return { content: [{ type: 'text', text }] }
ToolResult(kind, body) == [kind |-> kind, isError |-> FALSE, body |-> body]

FetchInit ==
    /\ store = [id \in ItemIds |-> Ok(Null)]
    /\ ids = <<>>
    /\ maxDepth = 0
    /\ minScore = 0
    /\ pc = "idle"
    /\ tasks = << >>
    /\ result = <<>>
    /\ req \in Requests
    /\ fpc = "start"
    /\ requests = 0
    /\ resp = NoResponse
    /\ fres = NoResult
    /\ topstories = Ok(<<>>)
    /\ tool = NoTool

Finish(r) ==
    /\ fres' = r
    /\ fpc' = IF r.outcome = "raised" THEN "raised" ELSE "done"

\* _fetch: if (is_ip_private(url)) throw ...
FGate ==
    /\ fpc = "start"
    /\ IF is_ip_private(req.url)
       THEN Finish(HandlerCatch(FetchCatch(req.url, <<"blocked private IP">>)))
       ELSE fpc' = "fetch" /\ fres' = fres
    /\ UNCHANGED <<toolVars, treeVars, req, requests, resp>>

\* _fetch: await fetch(url, { headers })
FRequest ==
    /\ fpc = "fetch"
    /\ IF UrlParses(req.url)
       THEN fpc' = "inflight" /\ requests' = requests + 1 /\ fres' = fres
       ELSE Finish(HandlerCatch(FetchCatch(req.url, <<"Invalid URL">>))) /\ requests' = requests
    /\ UNCHANGED <<toolVars, treeVars, req, resp>>

\* the request fails on the network
FNetworkError ==
    /\ fpc = "inflight"
    /\ Finish(HandlerCatch(FetchCatch(req.url, <<"fetch failed">>)))
    /\ UNCHANGED <<toolVars, treeVars, req, requests, resp>>

\* the response arrives: if (!response.ok) throw new Error(`HTTP error: ...`)
FResponse ==
    /\ fpc = "inflight"
    /\ \E st \in Statuses, body \in Bodies :
        /\ resp' = [status |-> st, body |-> body]
        /\ IF StatusOk(st)
           THEN fpc' = "body" /\ fres' = fres
           ELSE Finish(HandlerCatch(FetchCatch(req.url, <<"HTTP error", st>>)))
    /\ UNCHANGED <<toolVars, treeVars, req, requests>>

\* the body is read, converted and windowed
FConvert ==
    /\ fpc = "body"
    /\ Finish(Converted(req, resp.body))
    /\ UNCHANGED <<toolVars, treeVars, req, requests, resp>>

FetchNext ==
    \/ FGate
    \/ FRequest
    \/ FNetworkError
    \/ FResponse
    \/ FConvert

FetchSpec == FetchInit /\ [][FetchNext]_vars

Init ==
    /\ \E cfg \in Configs :
        /\ store = cfg.store
        /\ ids = cfg.ids
        /\ maxDepth = cfg.maxDepth
        /\ minScore = cfg.minScore
    /\ pc = "start"
    /\ tasks = << >>
    /\ result = <<>>
    /\ req = NoRequest
    /\ fpc = "idle"
    /\ requests = 0
    /\ resp = NoResponse
    /\ fres = NoResult
    /\ topstories = Ok(<<>>)
    /\ tool = NoTool

\* fetchComments(axiosInstance, commentIds, maxDepth, minScore): the early
\* return
CallEmpty ==
    /\ pc = "start"
    /\ EarlyReturn(ids, 0)
    /\ pc' = "returned"
    /\ result' = <<>>
    /\ UNCHANGED <<store, ids, maxDepth, minScore, tasks, fetchVars, toolVars>>

\* ... and the fan-out of the root call
Call ==
    /\ pc = "start"
    /\ ~EarlyReturn(ids, 0)
    /\ tasks' = Spawn(<<>>, RootIds(ids), 0)
    /\ pc' = "running"
    /\ UNCHANGED <<store, ids, maxDepth, minScore, result, fetchVars, toolVars>>

\* the lookup resolved with something that is not a live comment
ResolveDropped(p) ==
    /\ tasks[p].st = "fetching"
    /\ ~Keep(fetchItem(tasks[p].id))
    /\ tasks' = [tasks EXCEPT ![p].st = "done"]
    /\ UNCHANGED <<store, ids, maxDepth, minScore, pc, result, fetchVars, toolVars>>

\* building the node raises: the callback rejects
ResolveThrows(p) ==
    LET c == fetchItem(tasks[p].id) IN
    /\ tasks[p].st = "fetching"
    /\ Keep(c)
    /\ TimeThrows(c.time)
    /\ tasks' = [tasks EXCEPT ![p].st = "rejected"]
    /\ UNCHANGED <<store, ids, maxDepth, minScore, pc, result, fetchVars, toolVars>>

\* a kept comment that is not expanded
ResolveLeaf(p) ==
    LET c == fetchItem(tasks[p].id) IN
    /\ tasks[p].st = "fetching"
    /\ Keep(c)
    /\ ~TimeThrows(c.time)
    /\ ~Recurses(c, tasks[p].depth)
    /\ tasks' = [tasks EXCEPT ![p].st = "done", ![p].node = MkNode(c, tasks[p].depth)]
    /\ UNCHANGED <<store, ids, maxDepth, minScore, pc, result, fetchVars, toolVars>>

\* a kept comment with kids above the depth limit: the recursive call fans
\* out, unless it returns [] at once
ResolveExpand(p) ==
    LET c == fetchItem(tasks[p].id)
        d == ChildDepth(tasks[p].depth)
        kidIds == IF EarlyReturn(ChildIds(c.kids), d) THEN <<>> ELSE ChildIds(c.kids)
    IN
    /\ tasks[p].st = "fetching"
    /\ Keep(c)
    /\ ~TimeThrows(c.time)
    /\ Recurses(c, tasks[p].depth)
    /\ tasks' = [tasks EXCEPT ![p].st = "awaiting", ![p].node = MkNode(c, tasks[p].depth)]
                @@ Spawn(p, kidIds, d)
    /\ UNCHANGED <<store, ids, maxDepth, minScore, pc, result, fetchVars, toolVars>>

\* the recursive call returned: result.replies = childComments.sort(...)
Join(p) ==
    /\ tasks[p].st = "awaiting"
    /\ AllResolved(p)
    /\ tasks' = [tasks EXCEPT ![p].st = "done",
                              ![p].node.replies = <<SortByScore(Returned(p))>>]
    /\ UNCHANGED <<store, ids, maxDepth, minScore, pc, result, fetchVars, toolVars>>

\* the recursive call rejected: await rethrows in the callback
RejectUp(p) ==
    /\ tasks[p].st = "awaiting"
    /\ SomeRejected(p)
    /\ tasks' = [tasks EXCEPT ![p].st = "rejected"]
    /\ UNCHANGED <<store, ids, maxDepth, minScore, pc, result, fetchVars, toolVars>>

\* the root call returns validComments.sort(...)
Return ==
    /\ pc = "running"
    /\ AllResolved(<<>>)
    /\ result' = Returned(<<>>)
    /\ pc' = "returned"
    /\ UNCHANGED <<store, ids, maxDepth, minScore, tasks, fetchVars, toolVars>>

\* the root call rejects
Reject ==
    /\ pc = "running"
    /\ SomeRejected(<<>>)
    /\ pc' = "rejected"
    /\ UNCHANGED <<store, ids, maxDepth, minScore, tasks, result, fetchVars, toolVars>>

Next ==
    \/ CallEmpty
    \/ Call
    \/ \E p \in DOMAIN tasks : ResolveDropped(p)
    \/ \E p \in DOMAIN tasks : ResolveThrows(p)
    \/ \E p \in DOMAIN tasks : ResolveLeaf(p)
    \/ \E p \in DOMAIN tasks : ResolveExpand(p)
    \/ \E p \in DOMAIN tasks : Join(p)
    \/ \E p \in DOMAIN tasks : RejectUp(p)
    \/ Return
    \/ Reject

Spec == Init /\ [][Next]_vars

(***************************************************************************)
(* The tools: one tools/call request served from start to its result.      *)
(***************************************************************************)
ToolInit ==
    /\ \E cfg \in ToolConfigs :
        /\ store = cfg.store
        /\ topstories = cfg.topstories
        /\ tool = [NoTool EXCEPT !.name = cfg.name, !.args = cfg.args, !.pc = "start"]
    /\ ids = <<>>
    /\ maxDepth = 0
    /\ minScore = 0
    /\ pc = "idle"
    /\ tasks = << >>
    /\ result = <<>>
    /\ req = NoRequest
    /\ fpc = "idle"
    /\ requests = 0
    /\ resp = NoResponse
    /\ fres = NoResult

\* the handler returns out, or raises it when it is an McpError
Finished(out) ==
    tool' = [tool EXCEPT !.pc = IF out.kind = "McpError" THEN "raised" ELSE "returned",
                         !.out = out]

\* await fetchComments(this.axiosInstance, commentIds, depth, score)
StartComments(commentIds, depth, score) ==
    /\ ids' = commentIds
    /\ maxDepth' = depth
    /\ minScore' = score
    /\ pc' = "start"
    /\ tool' = [tool EXCEPT !.pc = "comments"]
    /\ UNCHANGED <<store, tasks, result>>

\* getStoryComments up to the call of fetchComments
GetStoryComments ==
    LET a == tool.args
        story == fetchItem(a.story_id)
    IN
    /\ tool.pc = "start"
    /\ tool.name = "get_story_comments"
    /\ IF story = Null \/ story.kids = <<>>
       THEN /\ Finished(ToolResult("json", [story_id |-> a.story_id, comments |-> <<>>]))
            /\ UNCHANGED treeVars
       ELSE StartComments(story.kids[1],
                          Min(OrDefault(a.max_depth, DefaultMaxDepth), MaxDepthCap),
                          OrDefault(a.min_score, DefaultMinScore))
    /\ UNCHANGED <<fetchVars, topstories>>

\* ... comments.slice(0, limitVal), formatCommentsAsText(...)
GetStoryCommentsDone ==
    LET a == tool.args
        story == fetchItem(a.story_id)
        filteredComments == SliceTo(result, Min(OrDefault(a.limit, DefaultLimit), MaxLimit))
    IN
    /\ tool.pc = "comments"
    /\ tool.name = "get_story_comments"
    /\ pc = "returned"
    /\ Finished(ToolResult("report",
            formatCommentsAsText(filteredComments,
                                 IF story.title = <<>> THEN "Unknown Story" ELSE story.title[1],
                                 a.story_id, OrDefault(story.descendants, 0))))
    /\ UNCHANGED <<treeVars, fetchVars, topstories>>

\* ... the catch of getStoryComments
GetStoryCommentsFailed ==
    /\ tool.pc = "comments"
    /\ tool.name = "get_story_comments"
    /\ pc = "rejected"
    /\ Finished(McpError("InternalError", "Failed to fetch story comments"))
    /\ UNCHANGED <<treeVars, fetchVars, topstories>>

\* JSON.stringify(result): the story with its comments and text
StoryResult(story, comments, text) ==
    ToolResult("story", [story_id |-> story.id, comments |-> comments, text |-> text])

\* getStoryDetails from the markdown step on: with include_markdown and a
\* url the page is fetched, otherwise the result is returned
DetailsMarkdown(story, comments) ==
    IF tool.args.include_markdown /\ story.url # <<>>
    THEN /\ req' = [url |-> story.url[1], mode |-> "markdown",
                    max_length |-> <<>>, start_index |-> <<>>]
         /\ fpc' = "start"
         /\ tool' = [tool EXCEPT !.pc = "markdown", !.comments = comments]
         /\ UNCHANGED <<requests, resp, fres>>
    ELSE /\ Finished(StoryResult(story, comments, story.text))
         /\ UNCHANGED fetchVars

\* getStoryDetails up to the call of fetchComments
GetStoryDetails ==
    LET a == tool.args
        story == fetchItem(a.story_id)
    IN
    /\ tool.pc = "start"
    /\ tool.name = "get_story_details"
    /\ CASE story = Null ->
              /\ Finished(McpError("InvalidParams", "Story not found"))
              /\ UNCHANGED <<treeVars, fetchVars>>
         [] story # Null /\ TimeThrows(story.time) ->
              /\ Finished(McpError("InternalError", "Failed to fetch story details"))
              /\ UNCHANGED <<treeVars, fetchVars>>
         [] story # Null /\ ~TimeThrows(story.time) /\ a.include_comments
                /\ story.kids # <<>> /\ Len(story.kids[1]) > 0 ->
              /\ StartComments(SliceTo(story.kids[1], DetailsKidsCap), DetailsMaxDepth, 0)
              /\ UNCHANGED fetchVars
         [] OTHER ->
              /\ DetailsMarkdown(story, <<>>)
              /\ UNCHANGED treeVars
    /\ UNCHANGED topstories

\* ... result.comments = await fetchComments(...)
GetStoryDetailsComments ==
    /\ tool.pc = "comments"
    /\ tool.name = "get_story_details"
    /\ pc = "returned"
    /\ DetailsMarkdown(fetchItem(tool.args.story_id), <<result>>)
    /\ UNCHANGED <<treeVars, topstories>>

\* ... the catch of getStoryDetails
GetStoryDetailsFailed ==
    /\ tool.pc = "comments"
    /\ tool.name = "get_story_details"
    /\ pc = "rejected"
    /\ Finished(McpError("InternalError", "Failed to fetch story details"))
    /\ UNCHANGED <<treeVars, fetchVars, topstories>>

\* ... const markdown = await Fetcher.markdown({ url: story.url });
\* result.text = markdown.content[0].text
GetStoryDetailsMarkdown ==
    /\ tool.pc = "markdown"
    /\ fpc \in {"done", "raised"}
    /\ IF fpc = "raised"
       THEN Finished(McpError("InternalError", "Failed to fetch story details"))
       ELSE Finished(StoryResult(fetchItem(tool.args.story_id), tool.comments, <<fres.text>>))
    /\ UNCHANGED <<treeVars, fetchVars, topstories>>

\* getTopStories: the list is fetched and cut, one lookup is issued per id
GetTopStories ==
    LET count == Min(OrDefault(tool.args.count, DefaultCount), MaxCount)
        storyIds == SliceTo(topstories.data, count)
    IN
    /\ tool.pc = "start"
    /\ tool.name = "get_top_stories"
    /\ IF topstories.status # "ok"
       THEN Finished(McpError("InternalError", "Failed to fetch top stories"))
       ELSE tool' = [tool EXCEPT !.pc = "lookups", !.storyIds = storyIds,
                                 !.issued = Len(storyIds)]
    /\ UNCHANGED <<treeVars, fetchVars, topstories>>

\* story && story.type === 'story'
IsStory(id) == fetchItem(id) # Null /\ fetchItem(id).type = "story"

\* one more callback of storyIds.map settles
TopLookup ==
    LET id == tool.storyIds[tool.resolved + 1] IN
    /\ tool.pc = "lookups"
    /\ tool.resolved < tool.issued
    /\ IF IsStory(id) /\ TimeThrows(fetchItem(id).time)
       THEN Finished(McpError("InternalError", "Failed to fetch top stories"))
       ELSE tool' = [tool EXCEPT !.resolved = @ + 1]
    /\ UNCHANGED <<treeVars, fetchVars, topstories>>

\* ... stories.filter(Boolean)
TopReturn ==
    /\ tool.pc = "lookups"
    /\ tool.resolved = tool.issued
    /\ Finished(ToolResult("stories", SelectSeq(tool.storyIds, IsStory)))
    /\ UNCHANGED <<treeVars, fetchVars, topstories>>

ToolNext ==
    \/ GetStoryComments
    \/ GetStoryCommentsDone
    \/ GetStoryCommentsFailed
    \/ GetStoryDetails
    \/ GetStoryDetailsComments
    \/ GetStoryDetailsFailed
    \/ GetStoryDetailsMarkdown
    \/ GetTopStories
    \/ TopLookup
    \/ TopReturn
    \/ Next
    \/ FetchNext

ToolSpec == ToolInit /\ [][ToolNext]_vars

(***************************************************************************)
(* Walking a returned tree.                                                *)
(***************************************************************************)
RepliesOf(n) == IF n.replies = <<>> THEN <<>> ELSE n.replies[1]

RECURSIVE AllNodes(_)
AllNodes(s) ==
    UNION {{s[i]} \cup AllNodes(RepliesOf(s[i])) : i \in 1..Len(s)}

RECURSIVE SiblingLists(_)
SiblingLists(s) ==
    {s} \cup UNION {SiblingLists(RepliesOf(s[i])) : i \in {j \in 1..Len(s) : s[j].replies # <<>>}}

NonIncreasing(s) ==
    \A i, j \in 1..Len(s) :
        i < j => (IF s[i].score = <<>> THEN 0 ELSE s[i].score[1])
                 >= (IF s[j].score = <<>> THEN 0 ELSE s[j].score[1])

(***************************************************************************)
(* C1: no comment of the tree fetchComments(ids, maxDepth, M) returns has  *)
(* a score below M.  Refuted: minScore is passed down and never compared.  *)
(***************************************************************************)
C1_MinScoreHonoured ==
    pc = "returned" =>
        \A n \in AllNodes(result) : n.score = <<>> \/ n.score[1] >= minScore

(***************************************************************************)
(* C3: in a tree returned for maxDepth = D >= 1 every root has depth 0,    *)
(* every reply has its parent's depth + 1, and every depth is in 0..D-1.   *)
(***************************************************************************)
C3_DepthInvariant ==
    (pc = "returned" /\ maxDepth >= 1) =>
        /\ \A i \in 1..Len(result) : result[i].depth = 0
        /\ \A n \in AllNodes(result) :
            /\ n.depth \in 0..(maxDepth - 1)
            /\ \A j \in 1..Len(RepliesOf(n)) : RepliesOf(n)[j].depth = n.depth + 1

C3_Witness ==
    /\ pc = "returned"
    /\ maxDepth = 3
    /\ \E n \in AllNodes(result) : n.depth = 2

(***************************************************************************)
(* C4: no node of a returned tree is deleted, dead or of another type than *)
(* comment; an item failing the test ends its callback with null, without  *)
(* any lookup of its kids and without an error.                            *)
(***************************************************************************)
Tombstone(id) ==
    /\ store[id].status = "ok"
    /\ store[id].data # Null
    /\ \/ store[id].data.type # "comment"
       \/ store[id].data.deleted
       \/ store[id].data.dead

C4_Pruned ==
    /\ pc = "returned" =>
        \A n \in AllNodes(result) :
            n # Null /\ n.type = "comment" /\ ~n.deleted /\ ~n.dead
    /\ \A p \in DOMAIN tasks :
        (Tombstone(tasks[p].id) /\ tasks[p].st # "fetching") =>
            /\ tasks[p].st = "done"
            /\ tasks[p].node = Null
            /\ Children(p) = {}

C4_Witness ==
    /\ pc = "returned"
    /\ Len(result) > 0
    /\ \E p \in DOMAIN tasks :
        /\ Tombstone(tasks[p].id)
        /\ store[tasks[p].id].data.dead
        /\ Len(store[tasks[p].id].data.kids) > 0
        /\ tasks[p].st = "done"

(***************************************************************************)
(* C5: every sibling sequence of a returned tree (the root list and every  *)
(* replies list) is in non-increasing score order, a missing score         *)
(* counting as 0.                                                          *)
(***************************************************************************)
C5_Sorted ==
    pc = "returned" => \A s \in SiblingLists(result) : NonIncreasing(s)

C5_Witness ==
    /\ pc = "returned"
    /\ Len(result) = 3
    /\ result # ValidComments(Gathered(<<>>))
    /\ \E i \in 1..3 : result[i].score = <<>>
    /\ \E i \in 1..3 : result[i].score = <<MaxScore>>

(***************************************************************************)
(* C6: for a fixed store the returned tree, ties included, is the one of   *)
(* the sequential schedule, whatever order the lookups completed in.       *)
(***************************************************************************)
Lookup == [id \in ItemIds |-> fetchItem(id)]

C6_ScheduleIndependent ==
    pc = "returned" => result = RefTree(Lookup, ids, 0)

C6_Witness ==
    /\ pc = "returned"
    /\ \E i \in 1..(Len(result) - 1) :
        /\ result[i].score = result[i + 1].score
        /\ result[i].id # result[i + 1].id
    /\ \E n \in AllNodes(result) : Len(RepliesOf(n)) >= 2

(***************************************************************************)
(* C7 as claimed: the root call looks up at most 10 ids and returns at     *)
(* most 10 roots.  Refuted by an id list of 11 live comments.              *)
(***************************************************************************)
C7_RootTruncated ==
    /\ Cardinality(Children(<<>>)) <= 10
    /\ pc = "returned" => Len(result) <= 10

(***************************************************************************)
(* C7 amended: the root call looks up every id of the list it is given,    *)
(* one lookup per position, and returns at most that many roots.           *)
(***************************************************************************)
C7_RootNotTruncated ==
    /\ pc \in {"running", "rejected"} \/ (pc = "returned" /\ ~EarlyReturn(ids, 0)) =>
        /\ Cardinality(Children(<<>>)) = Len(ids)
        /\ \A i \in 1..Len(ids) : tasks[<<i>>].id = ids[i]
    /\ pc = "returned" => Len(result) <= Len(ids)

C7_Witness ==
    /\ pc = "returned"
    /\ Len(ids) > 10
    /\ Len(result) = Len(ids)

(***************************************************************************)
(* C8: of a kept comment's kids only the first 10 are looked up; every     *)
(* replies list has at most 10 entries, all among the parent's first 10    *)
(* kid ids.                                                                *)
(***************************************************************************)
C8_KidsCapped ==
    /\ \A p \in DOMAIN tasks :
        Children(p) # {} =>
            LET k == store[tasks[p].id].data.kids IN
            /\ Cardinality(Children(p)) <= 10
            /\ \A q \in Children(p) :
                /\ q[Len(q)] <= 10
                /\ q[Len(q)] <= Len(k)
                /\ tasks[q].id = k[q[Len(q)]]
    /\ pc = "returned" =>
        \A n \in AllNodes(result) :
            /\ Len(RepliesOf(n)) <= 10
            /\ \A j \in 1..Len(RepliesOf(n)) :
                \E i \in 1..10 : i <= Len(n.kids) /\ n.kids[i] = RepliesOf(n)[j].id

C8_Witness ==
    /\ pc = "returned"
    /\ \E n \in AllNodes(result) : Len(n.kids) > 10 /\ Len(RepliesOf(n)) = 10

(***************************************************************************)
(* C9: a failure while one id is processed (a failed lookup, an exception  *)
(* while its node is built) stays in that id's subtree: the call returns,  *)
(* with the tree it would return if the id were absent.  Refuted: an       *)
(* exception in a callback rejects Promise.all and the whole call.         *)
(***************************************************************************)
WithoutFailing ==
    [id \in ItemIds |->
        IF store[id].status = "error" THEN Null
        ELSE IF store[id].data # Null /\ store[id].data.time = <<"bad">> THEN Null
        ELSE store[id].data]

C9_FailureContained ==
    /\ pc # "rejected"
    /\ pc = "returned" => result = RefTree(WithoutFailing, ids, 0)

(***************************************************************************)
(* C2: for a url whose host is a private, loopback or link-local address   *)
(* the call returns isError: true and no outbound request is issued.       *)
(* Refuted: the gate is handed the whole url string, which is no address.  *)
(***************************************************************************)
C2_PrivateHostBlocked ==
    req.url.host \in PrivateRanges =>
        /\ requests = 0
        /\ fpc = "done" => fres.isError

(***************************************************************************)
(* C10: a Fetcher call never raises; it returns isError: true exactly when *)
(* a step failed (blocked address, invalid url, network error, non-success *)
(* status, body that does not parse), with the message as its text.        *)
(***************************************************************************)
StepFailed ==
    \/ req.url.form = "bare"
    \/ requests = 1 /\ resp = NoResponse
    \/ resp.status \in {404, 500}
    \/ req.mode = "json" /\ resp.status = 200 /\ resp.body.kind # "json"

C10_NeverRaises ==
    /\ fpc # "raised"
    /\ fpc = "done" =>
        /\ fres.outcome = "returned"
        /\ fres.isError <=> StepFailed
        /\ fres.isError => fres.text # <<>>

C10_Witness ==
    /\ fpc = "done"
    /\ fres.isError
    /\ req.mode = "json"
    /\ resp.status = 200
    /\ resp.body.kind = "text"

(***************************************************************************)
(* C19 as claimed: every call of fetchComments eventually returns, and a   *)
(* call with depth >= maxDepth or no ids returns the empty sequence        *)
(* without a lookup.  Stated on the finite runs: whenever no step is left  *)
(* the call has returned.  Refuted: a call that meets an item whose time   *)
(* does not parse ends rejected, with every lookup resolved.               *)
(***************************************************************************)
\* no action of Next is enabled
Quiescent ==
    /\ pc # "start"
    /\ \A p \in DOMAIN tasks :
        /\ tasks[p].st # "fetching"
        /\ tasks[p].st = "awaiting" => ~AllResolved(p) /\ ~SomeRejected(p)
    /\ pc = "running" => ~AllResolved(<<>>) /\ ~SomeRejected(<<>>)

C19_EventuallyReturns ==
    /\ Quiescent => pc = "returned"
    /\ EarlyReturn(ids, 0) /\ pc # "start" =>
            pc = "returned" /\ result = <<>> /\ DOMAIN tasks = {}

(***************************************************************************)
(* C20 as claimed: no lookup of a child level is issued while a lookup of  *)
(* the parent's level is still pending.  Refuted: each callback recurses   *)
(* as soon as its own lookup has resolved.                                 *)
(***************************************************************************)
Siblings(p) ==
    {q \in DOMAIN tasks :
        Len(q) = Len(p) /\ SubSeq(q, 1, Len(p) - 1) = SubSeq(p, 1, Len(p) - 1)}

C20_LevelBarrier ==
    \A p \in DOMAIN tasks :
        Children(p) # {} => \A q \in Siblings(p) : tasks[q].st # "fetching"

(***************************************************************************)
(* C20 amended: the lookups of a comment's kids are issued only once that  *)
(* comment's own lookup has resolved (its siblings may still be pending);  *)
(* a callback completes only when every callback of its recursive call     *)
(* has, and the root call returns only when every lookup has resolved.     *)
(***************************************************************************)
C20_ChildAfterOwnLookup ==
    /\ \A p \in DOMAIN tasks :
        /\ Children(p) # {} =>
            /\ tasks[p].st # "fetching"
            /\ \A q \in Children(p) : tasks[q].depth = tasks[p].depth + 1
        /\ tasks[p].st = "done" => \A q \in Children(p) : tasks[q].st = "done"
    /\ pc = "returned" => \A p \in DOMAIN tasks : tasks[p].st = "done"

C20_Witness ==
    \E p \in DOMAIN tasks :
        /\ Children(p) # {}
        /\ \E q \in Siblings(p) : tasks[q].st = "fetching"
        /\ \E q \in Children(p) : tasks[q].st = "done"

(***************************************************************************)
(* C11: applyLengthLimits(text, maxLength, startIndex) returns, for every  *)
(* text and all integers startIndex and maxLength, exactly the characters  *)
(* of text at the positions [startIndex, min(startIndex + maxLength,       *)
(* length)), and the empty text when startIndex >= length.  Checked on the *)
(* html handler, which windows the body as it was received.                *)
(***************************************************************************)
\* the characters of text at the 0-based positions lo <= i < hi
CharsAt(text, lo, hi) ==
    LET from == IF lo < 0 THEN 0 ELSE lo
        to == Min(hi, Len(text))
    IN  IF to <= from THEN <<>> ELSE [i \in 1..(to - from) |-> text[from + i]]

C11_WindowExact ==
    fpc = "done" /\ req.mode = "html" /\ ~fres.isError =>
        LET text == resp.body.chars
            start == StartIndexOf(req)
        IN  fres.text = CharsAt(text, start, Min(start + MaxLengthOf(req), Len(text)))

(***************************************************************************)
(* C16: the markdown output never contains text that lies inside a nav,    *)
(* header, footer or aside element of the fetched document, whichever      *)
(* content region is selected.                                             *)
(***************************************************************************)
Tokens(text) == {text[i] : i \in DOMAIN text}

\* the text tokens of nodes at or below a nav, header, footer or aside
RECURSIVE ChromeText(_, _)
ChromeText(nodes, inside) ==
    IF nodes = <<>> THEN {}
    ELSE LET n == Head(nodes)
             in == inside \/ n.tag \in {"nav", "header", "footer", "aside"}
         IN  (IF in THEN Tokens(n.text) ELSE {})
             \cup ChromeText(n.kids, in) \cup ChromeText(Tail(nodes), inside)

C16_NoChromeText ==
    fpc = "done" /\ req.mode = "markdown" /\ ~fres.isError =>
        Tokens(fres.text) \cap ChromeText(<<resp.body.dom>>, FALSE) = {}

(***************************************************************************)
(* Rendered reports of get_story_comments.                                 *)
(***************************************************************************)
Reported ==
    tool.name = "get_story_comments" /\ tool.pc = "returned" /\ tool.out.kind = "report"

IsBlock(line) == line.kind = "block"
BlocksOf(body) == SelectSeq(body, IsBlock)

\* limitVal of the call
LimitVal == Min(OrDefault(tool.args.limit, DefaultLimit), MaxLimit)

(***************************************************************************)
(* C12: whenever a content fetch performed on behalf of a tool call fails, *)
(* the tool's result is marked as an error or the tool raises; a failure   *)
(* message is never returned inside a result that reports success.         *)
(***************************************************************************)
C12_FetchFailureMarked ==
    tool.pc = "returned" /\ fpc = "done" /\ fres.isError => tool.out.isError

(***************************************************************************)
(* C13: for every existing story of which no comment is retained (no kids, *)
(* or every kid absent, tombstoned or not a comment) get_story_comments    *)
(* returns the rendered report with the line "No comments found matching   *)
(* the criteria." and a count line showing 0.                              *)
(***************************************************************************)
NoneRetained(story) ==
    /\ story # Null
    /\ \/ story.kids = <<>>
       \/ \A i \in DOMAIN story.kids[1] : ~Keep(fetchItem(story.kids[1][i]))

C13_EmptyReport ==
    /\ tool.name = "get_story_comments"
    /\ tool.pc \in {"returned", "raised"}
    /\ NoneRetained(fetchItem(tool.args.story_id))
    => /\ Reported
       /\ \E i \in DOMAIN tool.out.body : tool.out.body[i] = NoComments
       /\ \E i \in DOMAIN tool.out.body :
            tool.out.body[i].kind = "counts" /\ tool.out.body[i].showing = 0

(***************************************************************************)
(* C14: the number of comment blocks in the output of get_story_comments,  *)
(* roots and replies at every depth counted, does not exceed the effective *)
(* limit (default 20, at most 100).                                        *)
(***************************************************************************)
C14_LimitCountsAll ==
    Reported => Len(BlocksOf(tool.out.body)) <= Max(LimitVal, 0)

(***************************************************************************)
(* C15: for every count argument get_top_stories issues at most 100 item   *)
(* lookups and returns at most 100 stories.                                *)
(***************************************************************************)
C15_AtMostHundred ==
    tool.name = "get_top_stories" =>
        /\ tool.issued <= MaxCount
        /\ tool.pc = "returned" => Len(tool.out.body) <= MaxCount

(***************************************************************************)
(* C17: formatCommentsAsText emits exactly one block per comment of the    *)
(* given tree in pre-order (each root in the given order, followed by its  *)
(* replies recursively in their order) and a divider after each top-level  *)
(* thread; three roots with scores 10, 5, 20 built with maxDepth = 1 are   *)
(* rendered in the order 20, 10, 5.                                        *)
(***************************************************************************)
\* the ids of a tree in pre-order
RECURSIVE PreOrder(_)
PreOrder(s) ==
    IF s = <<>> THEN <<>>
    ELSE <<Head(s).id>> \o PreOrder(RepliesOf(Head(s))) \o PreOrder(Tail(s))

\* the lines of a report after its three header lines
Threads(body) == SubSeq(body, 4, Len(body))

C17_PreOrderBlocks ==
    Reported =>
        LET given == SliceTo(result, LimitVal)
            body == tool.out.body
            blocks == BlocksOf(body)
            lines == Threads(body)
        IN  /\ [i \in 1..Len(blocks) |-> blocks[i].of] = PreOrder(given)
            /\ given # <<>> =>
                /\ lines[1] = Divider
                /\ lines[Len(lines)] = Divider
                /\ Cardinality({i \in 2..Len(lines) : lines[i] = Divider}) = Len(given)
                /\ \A i \in 2..Len(lines) :
                      lines[i].kind = "block" =>
                          (lines[i].indent = 0 <=> lines[i - 1] = Divider)

C17_Witness ==
    /\ Reported
    /\ maxDepth = 1
    /\ LET blocks == BlocksOf(tool.out.body) IN
        /\ [i \in 1..Len(blocks) |-> blocks[i].score] =
                << <<20, "points">>, <<10, "points">>, <<5, "points">> >>
        /\ [i \in 1..Len(blocks) |-> blocks[i].of] = <<3, 1, 2>>

(***************************************************************************)
(* C18: formatCommentsAsText returns for every tree, and a comment's       *)
(* absent author, score, text or replies is rendered as a fallback, never  *)
(* as a raw missing-value token.                                           *)
(***************************************************************************)
C18_NoRawMissingValue ==
    Reported =>
        \A i \in DOMAIN tool.out.body :
            tool.out.body[i].kind = "block" =>
                /\ tool.out.body[i].by # "undefined"
                /\ "undefined" \notin Tokens(tool.out.body[i].text)

(***************************************************************************)
(* C21: no layer retries.  Within one fetchComments call each id           *)
(* occurrence of a fetched id list is looked up exactly once, whether the  *)
(* lookup succeeds or fails, and a settled lookup is never issued again;   *)
(* each Fetcher call issues at most one outbound request, and a            *)
(* non-success status ends the call as a failure with no second request.   *)
(***************************************************************************)
\* the callbacks below p are one per position of the id list, each for the
\* id at its position
OnePerOccurrence(p, commentIds) ==
    /\ {q[Len(q)] : q \in Children(p)} = 1..Len(commentIds)
    /\ \A q \in Children(p) : tasks[q].id = commentIds[q[Len(q)]]

C21_LookupsOnce ==
    /\ pc \in {"running", "returned", "rejected"} =>
          OnePerOccurrence(<<>>, IF EarlyReturn(ids, 0) THEN <<>> ELSE ids)
    /\ \A p \in DOMAIN tasks :
          LET c == fetchItem(tasks[p].id) IN
          IF tasks[p].st = "fetching" \/ ~Keep(c) \/ ~Recurses(c, tasks[p].depth)
          THEN Children(p) = {}
          ELSE tasks[p].st = "rejected" \/ OnePerOccurrence(p, ChildIds(c.kids))

C21_RequestOnce ==
    /\ requests <= 1
    /\ fpc \in {"inflight", "body"} => requests = 1
    /\ fpc = "done" /\ resp # NoResponse /\ ~StatusOk(resp.status) =>
          fres.isError /\ requests = 1

C21_NoRetry ==
    /\ C21_LookupsOnce
    /\ C21_RequestOnce

C21_Witness ==
    /\ tool.pc = "returned"
    /\ \E p \in DOMAIN tasks : store[tasks[p].id].status = "error" /\ tasks[p].st = "done"
    /\ \E p \in DOMAIN tasks : Children(p) # {}
    /\ fpc = "done"
    /\ resp.status = 404
    /\ requests = 1

(***************************************************************************)
(* C22: in markdown mode the content region is the first element, in       *)
(* document order, matched by the first selector of the priority list      *)
(* main, article, [role="main"], .content, #content, .post, .entry that    *)
(* matches anything; when none matches it is the body; the conversion      *)
(* fails with an isError result only when there is no body.                *)
(***************************************************************************)
\* the document as the selectors see it
Cleaned(dom) == [dom EXCEPT !.kids = RemoveTags(@, {"script", "style", "noscript"})]

\* the region the priority rule names
PriorityRegion(doc) ==
    LET nodes == Descendants(<<doc>>)
        live == {k \in DOMAIN Selectors : \E i \in DOMAIN nodes : Matches(nodes[i], Selectors[k])}
    IN  IF live = {} THEN doc
        ELSE LET k == CHOOSE x \in live : \A y \in live : x <= y
                 at == {i \in DOMAIN nodes : Matches(nodes[i], Selectors[k])}
             IN  nodes[CHOOSE i \in at : \A j \in at : i <= j]

C22_RegionByPriority ==
    /\ fpc = "done"
    /\ req.mode = "markdown"
    /\ resp # NoResponse
    /\ StatusOk(resp.status)
    => /\ fres.isError <=> ~HasBody(resp.body)
       /\ ~fres.isError =>
            fres.text = Windowed(req, Trim(turndown(PriorityRegion(Cleaned(resp.body.dom)))))

C22_Witness ==
    /\ fpc = "done"
    /\ req.mode = "markdown"
    /\ ~fres.isError
    /\ resp.body.chars = <<"div", "post", "/", "article", "story", "/">>
    /\ fres.text = <<"story">>

(***************************************************************************)
(* C23: for every tree fetchComments returns, the nesting level at which   *)
(* formatCommentsAsText indents and marks a comment equals the comment's   *)
(* depth field, and a node carries a replies field only if it has kids and *)
(* its depth is below maxDepth - 1.                                        *)
(***************************************************************************)
\* the depth fields of a tree in pre-order
RECURSIVE PreOrderDepths(_)
PreOrderDepths(s) ==
    IF s = <<>> THEN <<>>
    ELSE <<Head(s).depth>> \o PreOrderDepths(RepliesOf(Head(s))) \o PreOrderDepths(Tail(s))

C23_NestingIsDepth ==
    /\ Reported =>
          LET blocks == BlocksOf(tool.out.body) IN
          /\ [i \in 1..Len(blocks) |-> blocks[i].indent] =
                  PreOrderDepths(SliceTo(result, LimitVal))
          /\ \A i \in 1..Len(blocks) :
                blocks[i].marker = DepthIndicator(blocks[i].indent)
    /\ pc = "returned" =>
          \A n \in AllNodes(result) :
              n.replies # <<>> => Len(n.kids) > 0 /\ n.depth < maxDepth - 1

C23_Witness ==
    /\ Reported
    /\ \E i \in DOMAIN tool.out.body :
          tool.out.body[i].kind = "block" /\ tool.out.body[i].indent = 2
    /\ \E n \in AllNodes(result) :
          n.replies = <<>> /\ Len(n.kids) > 0 /\ n.depth = maxDepth - 1

(***************************************************************************)
(* C24: for every mode and every request, a result with isError: false     *)
(* carries text of length at most max_length (5000 when max_length is not  *)
(* given), for all integers max_length and start_index.  A negative        *)
(* max_length is read as allowing no text at all.                          *)
(***************************************************************************)
C24_LengthBounded ==
    fpc = "done" /\ ~fres.isError => Len(fres.text) <= Max(MaxLengthOf(req), 0)

====
